---- MODULE Spec2Model ----
(***************************************************************************)
(* Model of lambda-large-file-cleansing: the record validator              *)
(* (validate_csv_row), the batcher (batch_generator), the worker tasks     *)
(* (process_batch) and the scheduler / partition sink of the multithreaded *)
(* handler (lambda_handler of app_multithread.py).                         *)
(*                                                                         *)
(* A line is a sequence of one-character strings.  Two characters stand    *)
(* for whole classes of bytes: BIG for a run of more ordinary characters   *)
(* than csv.field_size_limit() allows in one field, BADBYTE for a byte     *)
(* sequence that is not valid UTF-8.                                       *)
(***************************************************************************)
EXTENDS Integers, Sequences, FiniteSets, Bags, TLC

\* ------------------------------------------------------------------------
\* Characters and strings
\* ------------------------------------------------------------------------
Digit == {"0", "1", "2", "3", "4", "5", "6", "7", "8", "9"}
BIG == "*"
BADBYTE == "?"

DigitVal(c) ==
  CASE c = "0" -> 0 [] c = "1" -> 1 [] c = "2" -> 2 [] c = "3" -> 3
    [] c = "4" -> 4 [] c = "5" -> 5 [] c = "6" -> 6 [] c = "7" -> 7
    [] c = "8" -> 8 [] c = "9" -> 9

\* s[a..b] as Python slices it (empty when a > b).
Slice(s, a, b) == IF a > b THEN << >> ELSE SubSeq(s, a, b)

\* list.remove / dict.pop of one element from a sequence without repeats
Remove(s, x) == SelectSeq(s, LAMBDA y : y # x)

Range(s) == {s[i] : i \in 1..Len(s)}

\* The multiset of the elements of a sequence.
SeqToBag(s) ==
  [x \in Range(s) |-> Cardinality({i \in 1..Len(s) : s[i] = x})]

\* str.strip() on the whitespace of the model's alphabet (the blank).
RECURSIVE LStrip(_)
LStrip(s) == IF s # << >> /\ Head(s) = " " THEN LStrip(Tail(s)) ELSE s
RECURSIVE RStrip(_)
RStrip(s) ==
  IF s # << >> /\ s[Len(s)] = " " THEN RStrip(Slice(s, 1, Len(s) - 1)) ELSE s
Strip(s) == RStrip(LStrip(s))

\* ------------------------------------------------------------------------
\* csv.reader([line]) with the default (excel, non-strict) dialect
\* ------------------------------------------------------------------------
\* One step per character of the line, then the end-of-line step.  The
\* reader raises csv.Error when a field grows past the field size limit;
\* an unterminated quote is not an error in the non-strict dialect.
RECURSIVE csv_parse(_, _, _, _, _)
csv_parse(line, i, state, field, row) ==
  IF i > Len(line)
  THEN \* end of the line, then end of the input
       IF state = "START_RECORD"
       THEN [ok |-> TRUE, row |-> row]
       ELSE [ok |-> TRUE, row |-> Append(row, field)]
  ELSE LET c == line[i] IN
       IF c = BIG
       THEN [ok |-> FALSE, msg |-> "field larger than field limit (131072)"]
       ELSE IF state \in {"START_RECORD", "START_FIELD"}
       THEN IF c = "\""
            THEN csv_parse(line, i + 1, "IN_QUOTED_FIELD", field, row)
            ELSE IF c = ","
            THEN csv_parse(line, i + 1, "START_FIELD", << >>, Append(row, field))
            ELSE csv_parse(line, i + 1, "IN_FIELD", Append(field, c), row)
       ELSE IF state = "IN_FIELD"
       THEN IF c = ","
            THEN csv_parse(line, i + 1, "START_FIELD", << >>, Append(row, field))
            ELSE csv_parse(line, i + 1, "IN_FIELD", Append(field, c), row)
       ELSE IF state = "IN_QUOTED_FIELD"
       THEN IF c = "\""
            THEN csv_parse(line, i + 1, "QUOTE_IN_QUOTED_FIELD", field, row)
            ELSE csv_parse(line, i + 1, "IN_QUOTED_FIELD", Append(field, c), row)
       ELSE \* QUOTE_IN_QUOTED_FIELD
            IF c = "\""
            THEN csv_parse(line, i + 1, "IN_QUOTED_FIELD", Append(field, c), row)
            ELSE IF c = ","
            THEN csv_parse(line, i + 1, "START_FIELD", << >>, Append(row, field))
            ELSE csv_parse(line, i + 1, "IN_FIELD", Append(field, c), row)

csv_reader(line) == csv_parse(line, 1, "START_RECORD", << >>, << >>)

\* ------------------------------------------------------------------------
\* validate_csv_row
\* ------------------------------------------------------------------------
\* int(no) succeeds: blanks around, an optional sign, then digits that may
\* be grouped by single underscores.
int_ok(no) ==
  LET t == Strip(no)
      u == IF t # << >> /\ Head(t) \in {"+", "-"} THEN Tail(t) ELSE t
  IN  /\ u # << >>
      /\ \A i \in 1..Len(u) : u[i] \in Digit \cup {"_"}
      /\ u[1] \in Digit
      /\ u[Len(u)] \in Digit
      /\ \A i \in 1..(Len(u) - 1) : ~(u[i] = "_" /\ u[i + 1] = "_")

\* re.match(r'^\d{4}/\d{2}/\d{2}$', created_date)
date_pattern(d) ==
  /\ Len(d) = 10
  /\ \A i \in {1, 2, 3, 4, 6, 7, 9, 10} : d[i] \in Digit
  /\ d[5] = "/"
  /\ d[8] = "/"

\* The leap rule without the century exception.
IsLeap_julian(y) == y % 4 = 0

IsLeap(y) == y % 4 = 0 /\ (y % 100 # 0 \/ y % 400 = 0)

DaysInMonth(y, m) ==
  IF m = 2 THEN (IF IsLeap(y) THEN 29 ELSE 28)
  ELSE IF m \in {4, 6, 9, 11} THEN 30 ELSE 31

\* datetime.strptime(created_date, '%Y/%m/%d') succeeds, for a value that
\* matched date_pattern: %m takes 01..12, %d takes 01..31, and the date
\* constructor wants a year from 1 and a day the month has.
strptime_ok(d) ==
  LET y  == 1000 * DigitVal(d[1]) + 100 * DigitVal(d[2])
            + 10 * DigitVal(d[3]) + DigitVal(d[4])
      m  == 10 * DigitVal(d[6]) + DigitVal(d[7])
      dd == 10 * DigitVal(d[9]) + DigitVal(d[10])
  IN  /\ m \in 1..12
      /\ dd \in 1..31
      /\ y >= 1
      /\ dd <= DaysInMonth(y, m)

\* The checks on a parsed row, in the order of the code: the first that
\* fails returns.
check_row_swapped(row, line) ==
  IF Len(row) # 3
  THEN [valid |-> FALSE, error |-> "Invalid column count", line |-> line]
  ELSE LET no           == row[1]
           name         == row[2]
           created_date == row[3]
       IN  IF no = << >> \/ Strip(no) = << >>
           THEN [valid |-> FALSE, error |-> "no is null", line |-> line]
           ELSE IF ~int_ok(no)
           THEN [valid |-> FALSE, error |-> "no is not int", line |-> line]
           ELSE IF ~date_pattern(created_date)
           THEN [valid |-> FALSE,
                 error |-> "created_date is not YYYY/MM/DD format",
                 line |-> line]
           ELSE IF Len(name) > 20
           THEN [valid |-> FALSE, error |-> "name exceeds 20 characters",
                 line |-> line]
           ELSE IF ~strptime_ok(created_date)
           THEN [valid |-> FALSE, error |-> "created_date is invalid date",
                 line |-> line]
           ELSE [valid |-> TRUE, line |-> line]

\* check_row with the length test off by one: len(name) >= 20.
check_row_offbyone(row, line) ==
  IF Len(row) # 3
  THEN [valid |-> FALSE, error |-> "Invalid column count", line |-> line]
  ELSE LET no           == row[1]
           name         == row[2]
           created_date == row[3]
       IN  IF no = << >> \/ Strip(no) = << >>
           THEN [valid |-> FALSE, error |-> "no is null", line |-> line]
           ELSE IF ~int_ok(no)
           THEN [valid |-> FALSE, error |-> "no is not int", line |-> line]
           ELSE IF Len(name) >= 20
           THEN [valid |-> FALSE, error |-> "name exceeds 20 characters",
                 line |-> line]
           ELSE IF ~date_pattern(created_date)
           THEN [valid |-> FALSE,
                 error |-> "created_date is not YYYY/MM/DD format",
                 line |-> line]
           ELSE IF ~strptime_ok(created_date)
           THEN [valid |-> FALSE, error |-> "created_date is invalid date",
                 line |-> line]
           ELSE [valid |-> TRUE, line |-> line]

check_row(row, line) ==
  IF Len(row) # 3
  THEN [valid |-> FALSE, error |-> "Invalid column count", line |-> line]
  ELSE LET no           == row[1]
           name         == row[2]
           created_date == row[3]
       IN  IF no = << >> \/ Strip(no) = << >>
           THEN [valid |-> FALSE, error |-> "no is null", line |-> line]
           ELSE IF ~int_ok(no)
           THEN [valid |-> FALSE, error |-> "no is not int", line |-> line]
           ELSE IF Len(name) > 20
           THEN [valid |-> FALSE, error |-> "name exceeds 20 characters",
                 line |-> line]
           ELSE IF ~date_pattern(created_date)
           THEN [valid |-> FALSE,
                 error |-> "created_date is not YYYY/MM/DD format",
                 line |-> line]
           ELSE IF ~strptime_ok(created_date)
           THEN [valid |-> FALSE, error |-> "created_date is invalid date",
                 line |-> line]
           ELSE [valid |-> TRUE, line |-> line]

\* validate_csv_row whose except clause returns the rejection without the
\* error entry.
validate_csv_row_silent(line) ==
  LET p == csv_reader(line) IN
  IF ~p.ok
  THEN [valid |-> FALSE, line |-> line]
  ELSE check_row(p.row, line)

\* validate_csv_row without the outer try: the reader's exception leaves
\* the function instead of a dictionary.
validate_csv_row_uncaught(line) ==
  LET p == csv_reader(line) IN
  IF ~p.ok
  THEN [raised |-> p.msg]
  ELSE check_row(p.row, line)

\* The outer except turns the reader's exception into a rejection whose
\* error is the exception's text.
validate_csv_row(line) ==
  LET p == csv_reader(line) IN
  IF ~p.ok
  THEN [valid |-> FALSE, error |-> p.msg, line |-> line]
  ELSE check_row(p.row, line)

\* ------------------------------------------------------------------------
\* process_batch and batch_generator
\* ------------------------------------------------------------------------
\* process_batch without the else branch: rejected lines are dropped.
RECURSIVE process_batch_lossy(_)
process_batch_lossy(lines) ==
  IF lines = << >>
  THEN [valid_lines |-> << >>, error_lines |-> << >>]
  ELSE LET init   == Slice(lines, 1, Len(lines) - 1)
           acc    == process_batch_lossy(init)
           result == validate_csv_row(lines[Len(lines)])
       IN  IF result.valid
           THEN [acc EXCEPT !.valid_lines = Append(@, result.line)]
           ELSE acc

RECURSIVE process_batch(_)
process_batch(lines) ==
  IF lines = << >>
  THEN [valid_lines |-> << >>, error_lines |-> << >>]
  ELSE LET init   == Slice(lines, 1, Len(lines) - 1)
           acc    == process_batch(init)
           result == validate_csv_row(lines[Len(lines)])
       IN  IF result.valid
           THEN [acc EXCEPT !.valid_lines = Append(@, result.line)]
           ELSE [acc EXCEPT !.error_lines = Append(@, result.line)]

\* decode('utf-8', errors='replace'): never fails.
decodable_lenient(raw) == TRUE

\* bytes.decode('utf-8') of one raw line: fails on a byte sequence that is
\* not UTF-8, otherwise yields the line's characters.
decodable(raw) == \A i \in 1..Len(raw) : raw[i] # BADBYTE

\* list(islice(decoded_lines(), batch_size)) from raw line p + 1 of the body:
\* empty raw lines are skipped, an undecodable line raises, the slice stops
\* as soon as it holds batch_size lines or the body ends.
RECURSIVE islice(_, _, _, _)
islice(raw_lines, p, batch_size, acc) ==
  IF Len(acc) = batch_size \/ p >= Len(raw_lines)
  THEN [batch |-> acc, pos |-> p, raised |-> FALSE]
  ELSE LET raw == raw_lines[p + 1] IN
       IF raw = << >>
       THEN islice(raw_lines, p + 1, batch_size, acc)
       ELSE IF ~decodable(raw)
       THEN [batch |-> << >>, pos |-> p + 1, raised |-> TRUE]
       ELSE islice(raw_lines, p + 1, batch_size, Append(acc, raw))

\* batch_generator that ends at the first batch shorter than batch_size
\* instead of yielding it.
batch_generator_dropshort(raw_lines, p, batch_size) ==
  LET r == islice(raw_lines, p, batch_size, << >>) IN
  [batch |-> r.batch, pos |-> r.pos, raised |-> r.raised,
   stop |-> ~r.raised /\ Len(r.batch) < batch_size]

\* next(batches): a batch, StopIteration (stop) or the decoder's exception.
batch_generator(raw_lines, p, batch_size) ==
  LET r == islice(raw_lines, p, batch_size, << >>) IN
  [batch |-> r.batch, pos |-> r.pos, raised |-> r.raised,
   stop |-> ~r.raised /\ r.batch = << >>]

\* ------------------------------------------------------------------------
\* The sequential handler (app.py)
\* ------------------------------------------------------------------------
\* for line in body.iter_lines(): if line: ...  from raw line i on; st is
\* the streams and counters so far, and raised says the decode failed.
RECURSIVE app_loop(_, _, _, _)
app_loop(raw_lines, i, is_header, st) ==
  IF i > Len(raw_lines) THEN st
  ELSE LET line == raw_lines[i] IN
       IF line = << >>
       THEN app_loop(raw_lines, i + 1, is_header, st)
       ELSE IF ~decodable(line)
       THEN [st EXCEPT !.line_count = @ + 1, !.raised = TRUE]
       ELSE IF is_header
       THEN app_loop(raw_lines, i + 1, FALSE,
                     [st EXCEPT !.line_count = @ + 1,
                                !.valid_stream = Append(@, line),
                                !.error_stream = Append(@, line)])
       ELSE IF validate_csv_row(line).valid
       THEN app_loop(raw_lines, i + 1, FALSE,
                     [st EXCEPT !.line_count = @ + 1,
                                !.valid_stream = Append(@, line),
                                !.valid_count = @ + 1])
       ELSE app_loop(raw_lines, i + 1, FALSE,
                     [st EXCEPT !.line_count = @ + 1,
                                !.error_stream = Append(@, line),
                                !.error_count = @ + 1])

\* lambda_handler of app.py up to the uploads
app_handler(raw_lines) ==
  app_loop(raw_lines, 1, TRUE,
           [valid_stream |-> << >>, error_stream |-> << >>, line_count |-> 0,
            valid_count |-> 0, error_count |-> 0, raised |-> FALSE])

\* ------------------------------------------------------------------------
\* Bounds and inputs
\* ------------------------------------------------------------------------
MaxLines == 4       \* raw lines of the input object, header included
MaxWorkers == 2     \* MAX_WORKERS ranges over 1..MaxWorkers
MaxBatch == 2       \* BATCH_SIZE ranges over 1..MaxBatch

HEADER == <<"n", "o", ",", "n", "a", "m", "e", ",",
            "c", "r", "e", "a", "t", "e", "d", "_", "d", "a", "t", "e">>

DigitChar == <<"1", "2", "3", "4", "5", "6", "7", "8", "9">>

\* The k-th raw line after the first, in its variants: a record every rule
\* accepts, a record with an impossible date, a record whose second field
\* is over the reader's field limit, bytes that are not UTF-8.  The rejected
\* variant of an even line is the one the reader cannot parse.
DATE_OK == <<"2", "0", "2", "4", "/", "0", "2", "/", "2", "9">>
DATE_BAD == <<"2", "0", "2", "3", "/", "0", "2", "/", "2", "9">>

GoodLine(k) == <<DigitChar[k]>>
               \o <<",", "a", ",">> \o DATE_OK
BadLine(k)  == <<DigitChar[k]>>
               \o <<",", "a", ",">> \o DATE_BAD
HugeLine(k) == <<DigitChar[k]>>
               \o <<",", BIG, ",">> \o DATE_OK
GarbledLine(k) == <<DigitChar[k], ",", BADBYTE>>
RejectedLine(k) == IF k % 2 = 0 THEN HugeLine(k) ELSE BadLine(k)

\* The choices for raw line i of the object; any line may be empty.
RawChoices(i) ==
  IF i = 1 THEN {HEADER, << >>}
  ELSE {GoodLine(i - 1), RejectedLine(i - 1), << >>}

RECURSIVE BodiesOfLen(_)
BodiesOfLen(n) ==
  IF n = 0 THEN {<< >>}
  ELSE {Append(b, l) : b \in BodiesOfLen(n - 1), l \in RawChoices(n)}

\* Nothing after an undecodable line is ever read, so such a line is offered
\* as the last line of the object only.
GarbledBodies(n) == {Append(b, GarbledLine(n)) : b \in BodiesOfLen(n - 1)}

Bodies == UNION {BodiesOfLen(n) : n \in 0..MaxLines}
            \cup UNION {GarbledBodies(n) : n \in 1..MaxLines}

\* ------------------------------------------------------------------------
\* State of one invocation of lambda_handler (app_multithread.py)
\* ------------------------------------------------------------------------
VARIABLES
  MAX_WORKERS,    \* module constant, fixed by Init
  BATCH_SIZE,     \* module constant, fixed by Init
  body,           \* the object's raw lines, as body.iter_lines() yields them
  pos,            \* raw lines consumed from lines_iter
  pc,             \* position of the main thread
  fill_i,         \* iterations done of the initial submission loop
  valid_stream,   \* lines written to valid_stream
  error_stream,   \* lines written to error_stream
  line_count,
  valid_count,
  error_count,
  batch_count,
  futures,        \* the futures dictionary, as the set of its batch ids
  tasks,          \* the executor's work items, by batch id + 1
  cur,            \* (valid_lines, error_lines) of the future just popped
  exc,            \* the exception propagating in the main thread
  uploaded,       \* keys stored at the destination
  response,       \* the value returned to the caller
  write_lock,     \* holder of write_lock: "free" or the thread inside it
  finished_order, \* batch ids of the futures that are done and still in
                  \* the dictionary, in the order their tasks ended
  v_line,         \* validate_csv_row on its own: the argument
  v_result,       \* validate_csv_row on its own: the returned dictionary
  v_batches,      \* batch_generator on its own: the batches yielded so far
  conn,           \* app_duckdb: the tables of the DuckDB connection
  total_count,    \* app_duckdb: rows of raw_data
  prev            \* outputs of an earlier complete run on the same input

vars == <<MAX_WORKERS, BATCH_SIZE, body, pos, pc, fill_i, valid_stream,
          error_stream, line_count, valid_count, error_count, batch_count,
          futures, tasks, cur, exc, uploaded, response, write_lock,
          finished_order, v_line, v_result, v_batches, conn, total_count,
          prev>>

NoExc == [kind |-> "none", batch |-> -1]
NoResult == [valid_lines |-> << >>, error_lines |-> << >>]
NoResponse == [statusCode |-> 0]
NotCalled == [called |-> FALSE]
NoRun == [ran |-> FALSE]
NoTables == [raw_data |-> << >>, valid_data |-> << >>, error_data |-> << >>]

Init ==
  /\ MAX_WORKERS \in 1..MaxWorkers
  /\ BATCH_SIZE \in 1..MaxBatch
  /\ body \in Bodies
  /\ pos = 0
  /\ pc = "start"
  /\ fill_i = 0
  /\ valid_stream = << >>
  /\ error_stream = << >>
  /\ line_count = 0
  /\ valid_count = 0
  /\ error_count = 0
  /\ batch_count = 0
  /\ futures = {}
  /\ tasks = << >>
  /\ cur = NoResult
  /\ exc = NoExc
  /\ uploaded = {}
  /\ response = NoResponse
  /\ write_lock = "free"
  /\ finished_order = << >>
  /\ v_line = << >>
  /\ v_result = NotCalled
  /\ v_batches = << >>
  /\ conn = NoTables
  /\ total_count = 0
  /\ prev = NoRun

config ==
  <<MAX_WORKERS, BATCH_SIZE, body, v_line, v_result, v_batches, conn,
    total_count, prev>>
sink == <<valid_stream, error_stream, line_count, valid_count, error_count>>
pool == <<batch_count, futures, tasks>>

\* executor.submit(process_batch, batch); futures[future] = batch_count
submit(batch) ==
  /\ tasks' = Append(tasks, [lines |-> batch, state |-> "PENDING",
                             outcome |-> "none", result |-> NoResult])
  /\ futures' = futures \cup {batch_count}
  /\ batch_count' = batch_count + 1

\* head_object / get_object succeed
get_object ==
  /\ pc = "start"
  /\ pc' = "header"
  /\ UNCHANGED <<config, finished_order, write_lock, pos, fill_i, sink, pool,
                 cur, exc, uploaded, response>>

\* head_object / get_object raise; the handler logs and re-raises
get_object_fails ==
  /\ pc = "start"
  /\ exc' = [kind |-> "ClientError", batch |-> -1]
  /\ pc' = "done"
  /\ UNCHANGED <<config, finished_order, write_lock, pos, fill_i, sink, pool,
                 cur, uploaded, response>>

\* header_line = next(lines_iter, None); if header_line: write it to both
read_header ==
  /\ pc = "header"
  /\ IF body = << >>
     THEN /\ pc' = "fill"
          /\ UNCHANGED <<pos, sink, exc>>
     ELSE /\ pos' = 1
          /\ IF body[1] = << >>
             THEN /\ pc' = "fill"
                  /\ UNCHANGED <<sink, exc>>
             ELSE IF ~decodable(body[1])
             THEN /\ exc' = [kind |-> "UnicodeDecodeError", batch |-> -1]
                  /\ pc' = "done"
                  /\ UNCHANGED sink
             ELSE /\ valid_stream' = Append(valid_stream, body[1])
                  /\ error_stream' = Append(error_stream, body[1])
                  /\ line_count' = line_count + 1
                  /\ pc' = "fill"
                  /\ UNCHANGED <<valid_count, error_count, exc>>
  /\ UNCHANGED <<config, finished_order, write_lock, fill_i, pool, cur,
                 uploaded, response>>

\* initial_submit with the loop bound off by one: range(MAX_WORKERS * 2 + 1)
initial_submit_overfill ==
  /\ pc = "fill"
  /\ LET nb == batch_generator(body, pos, BATCH_SIZE) IN
     IF fill_i >= MAX_WORKERS * 2 + 1
     THEN /\ pc' = "wait"
          /\ UNCHANGED <<pos, fill_i, pool, exc>>
     ELSE IF nb.raised
     THEN /\ exc' = [kind |-> "UnicodeDecodeError", batch |-> -1]
          /\ pos' = nb.pos
          /\ pc' = "shutdown"
          /\ UNCHANGED <<fill_i, pool>>
     ELSE IF nb.stop
     THEN /\ pos' = nb.pos
          /\ pc' = "wait"
          /\ UNCHANGED <<fill_i, pool, exc>>
     ELSE /\ submit(nb.batch)
          /\ pos' = nb.pos
          /\ fill_i' = fill_i + 1
          /\ UNCHANGED <<pc, exc>>
  /\ UNCHANGED <<config, finished_order, write_lock, sink, cur, uploaded,
                 response>>

\* one iteration of: for _ in range(MAX_WORKERS * 2): submit next(batches)
initial_submit ==
  /\ pc = "fill"
  /\ LET nb == batch_generator(body, pos, BATCH_SIZE) IN
     IF fill_i >= MAX_WORKERS * 2
     THEN /\ pc' = "wait"
          /\ UNCHANGED <<pos, fill_i, pool, exc>>
     ELSE IF nb.raised
     THEN /\ exc' = [kind |-> "UnicodeDecodeError", batch |-> -1]
          /\ pos' = nb.pos
          /\ pc' = "shutdown"
          /\ UNCHANGED <<fill_i, pool>>
     ELSE IF nb.stop
     THEN /\ pos' = nb.pos
          /\ pc' = "wait"
          /\ UNCHANGED <<fill_i, pool, exc>>
     ELSE /\ submit(nb.batch)
          /\ pos' = nb.pos
          /\ fill_i' = fill_i + 1
          /\ UNCHANGED <<pc, exc>>
  /\ UNCHANGED <<config, finished_order, write_lock, sink, cur, uploaded,
                 response>>

\* take_completed that swallows a task's exception and carries on with an
\* empty result.
take_completed_swallow ==
  /\ pc = "wait"
  /\ futures # {}
  /\ \E b \in futures :
       /\ tasks[b + 1].state = "FINISHED"
       /\ futures' = futures \ {b}
       /\ finished_order' = Remove(finished_order, b)
       /\ cur' = IF tasks[b + 1].outcome = "exception"
                 THEN NoResult ELSE tasks[b + 1].result
       /\ pc' = "ingest"
       /\ UNCHANGED exc
  /\ UNCHANGED <<config, write_lock, pos, fill_i, sink, batch_count, tasks,
                 uploaded, response>>

\* take_completed that pops every finished future but ingests one of them.
take_completed_drop ==
  /\ pc = "wait"
  /\ futures # {}
  /\ \E b \in futures :
       /\ tasks[b + 1].state = "FINISHED"
       /\ futures' = {f \in futures : tasks[f + 1].state # "FINISHED"}
       /\ finished_order' = << >>
       /\ IF tasks[b + 1].outcome = "exception"
          THEN /\ exc' = [kind |-> "TaskFault", batch |-> b]
               /\ pc' = "shutdown"
               /\ UNCHANGED cur
          ELSE /\ cur' = tasks[b + 1].result
               /\ pc' = "ingest"
               /\ UNCHANGED exc
  /\ UNCHANGED <<config, write_lock, pos, fill_i, sink, batch_count, tasks,
                 uploaded, response>>

\* take_completed that takes a future from the dictionary without waiting
\* for its task to end.
take_completed_eager ==
  /\ pc = "wait"
  /\ futures # {}
  /\ \E b \in futures :
       /\ futures' = futures \ {b}
       /\ finished_order' = Remove(finished_order, b)
       /\ IF tasks[b + 1].outcome = "exception"
          THEN /\ exc' = [kind |-> "TaskFault", batch |-> b]
               /\ pc' = "shutdown"
               /\ UNCHANGED cur
          ELSE /\ cur' = tasks[b + 1].result
               /\ pc' = "ingest"
               /\ UNCHANGED exc
  /\ UNCHANGED <<config, write_lock, pos, fill_i, sink, batch_count, tasks,
                 uploaded, response>>

\* while futures: for future in as_completed(futures): pop it, take its
\* result.  as_completed yields any future that has finished.
take_completed ==
  /\ pc = "wait"
  /\ futures # {}
  /\ \E b \in futures :
       /\ tasks[b + 1].state = "FINISHED"
       /\ futures' = futures \ {b}
       /\ finished_order' = Remove(finished_order, b)
       /\ IF tasks[b + 1].outcome = "exception"
          THEN /\ exc' = [kind |-> "TaskFault", batch |-> b]
               /\ pc' = "shutdown"
               /\ UNCHANGED cur
          ELSE /\ cur' = tasks[b + 1].result
               /\ pc' = "ingest"
               /\ UNCHANGED exc
  /\ UNCHANGED <<config, write_lock, pos, fill_i, sink, batch_count, tasks,
                 uploaded, response>>

\* The loop left while futures are still in the dictionary.
loop_exit_early ==
  /\ pc = "wait"
  /\ pc' = "shutdown"
  /\ UNCHANGED <<config, finished_order, write_lock, pos, fill_i, sink, pool,
                 cur, exc, uploaded, response>>

\* while futures: is false
loop_exit ==
  /\ pc = "wait"
  /\ futures = {}
  /\ pc' = "shutdown"
  /\ UNCHANGED <<config, finished_order, write_lock, pos, fill_i, sink, pool,
                 cur, exc, uploaded, response>>

\* The block entered without taking write_lock.
acquire_write_lock_skipped ==
  /\ pc = "ingest"
  /\ pc' = "locked"
  /\ UNCHANGED <<config, finished_order, write_lock, pos, fill_i, sink, pool,
                 cur, exc, uploaded, response>>

\* with write_lock: the main thread enters the block
acquire_write_lock ==
  /\ pc = "ingest"
  /\ write_lock = "free"
  /\ write_lock' = "main"
  /\ pc' = "locked"
  /\ UNCHANGED <<config, finished_order, pos, fill_i, sink, pool, cur, exc,
                 uploaded, response>>

\* inside the block: append the valid lines, then the error lines, and add
\* to the counters; leaving the block releases write_lock
ingest ==
  /\ pc = "locked"
  /\ valid_stream' = valid_stream \o cur.valid_lines
  /\ valid_count' = valid_count + Len(cur.valid_lines)
  /\ error_stream' = error_stream \o cur.error_lines
  /\ error_count' = error_count + Len(cur.error_lines)
  /\ line_count' = line_count + Len(cur.valid_lines) + Len(cur.error_lines)
  /\ write_lock' = "free"
  /\ pc' = "refill"
  /\ UNCHANGED <<config, finished_order, pos, fill_i, pool, cur, exc,
                 uploaded, response>>

\* The loop without the refill: nothing is submitted after an ingestion.
refill_never ==
  /\ pc = "refill"
  /\ pc' = "wait"
  /\ UNCHANGED <<config, finished_order, write_lock, pos, fill_i, sink, pool,
                 cur, exc, uploaded, response>>

\* try: submit next(batches)  except StopIteration: pass;  then break
refill ==
  /\ pc = "refill"
  /\ LET nb == batch_generator(body, pos, BATCH_SIZE) IN
     /\ pos' = nb.pos
     /\ IF nb.raised
        THEN /\ exc' = [kind |-> "UnicodeDecodeError", batch |-> -1]
             /\ pc' = "shutdown"
             /\ UNCHANGED pool
        ELSE IF nb.stop
        THEN /\ pc' = "wait"
             /\ UNCHANGED <<pool, exc>>
        ELSE /\ submit(nb.batch)
             /\ pc' = "wait"
             /\ UNCHANGED exc
  /\ UNCHANGED <<config, finished_order, write_lock, fill_i, sink, cur,
                 uploaded, response>>

\* worker_start of a pool that takes work items only during the initial
\* submissions.
worker_start_stalled ==
  /\ pc = "fill"
  /\ \E i \in 1..Len(tasks) :
       /\ tasks[i].state = "PENDING"
       /\ \A j \in 1..(i - 1) : tasks[j].state # "PENDING"
       /\ Cardinality({j \in 1..Len(tasks) : tasks[j].state = "RUNNING"})
            < MAX_WORKERS
       /\ tasks' = [tasks EXCEPT ![i].state = "RUNNING"]
  /\ UNCHANGED <<config, finished_order, write_lock, pos, pc, fill_i, sink,
                 batch_count, futures, cur, exc, uploaded, response>>

\* worker_start of a pool that starts a thread for every work item.
worker_start_unbounded ==
  /\ pc \in {"fill", "wait", "ingest", "locked", "refill", "shutdown"}
  /\ \E i \in 1..Len(tasks) :
       /\ tasks[i].state = "PENDING"
       /\ \A j \in 1..(i - 1) : tasks[j].state # "PENDING"
       /\ tasks' = [tasks EXCEPT ![i].state = "RUNNING"]
  /\ UNCHANGED <<config, finished_order, write_lock, pos, pc, fill_i, sink,
                 batch_count, futures, cur, exc, uploaded, response>>

\* A worker thread takes the oldest queued work item; the pool has at most
\* MAX_WORKERS threads.
worker_start ==
  /\ pc \in {"fill", "wait", "ingest", "locked", "refill", "shutdown"}
  /\ \E i \in 1..Len(tasks) :
       /\ tasks[i].state = "PENDING"
       /\ \A j \in 1..(i - 1) : tasks[j].state # "PENDING"
       /\ Cardinality({j \in 1..Len(tasks) : tasks[j].state = "RUNNING"})
            < MAX_WORKERS
       /\ tasks' = [tasks EXCEPT ![i].state = "RUNNING"]
  /\ UNCHANGED <<config, finished_order, write_lock, pos, pc, fill_i, sink,
                 batch_count, futures, cur, exc, uploaded, response>>

\* process_batch returns its two lists
worker_finish ==
  /\ \E i \in 1..Len(tasks) :
       /\ tasks[i].state = "RUNNING"
       /\ finished_order' = Append(finished_order, i - 1)
       /\ tasks' = [tasks EXCEPT ![i].state = "FINISHED",
                                 ![i].outcome = "result",
                                 ![i].result = process_batch(tasks[i].lines)]
  /\ UNCHANGED <<config, write_lock, pos, pc, fill_i, sink, batch_count,
                 futures, cur, exc, uploaded, response>>

\* the task ends with an exception instead
worker_fault ==
  /\ \E i \in 1..Len(tasks) :
       /\ tasks[i].state = "RUNNING"
       /\ finished_order' = Append(finished_order, i - 1)
       /\ tasks' = [tasks EXCEPT ![i].state = "FINISHED",
                                 ![i].outcome = "exception"]
  /\ UNCHANGED <<config, write_lock, pos, pc, fill_i, sink, batch_count,
                 futures, cur, exc, uploaded, response>>

\* Leaving the with block: executor.shutdown(wait=True) returns when every
\* work item has run; then an exception goes to the handler's except clause
\* and is re-raised.
executor_exit ==
  /\ pc = "shutdown"
  /\ \A i \in 1..Len(tasks) : tasks[i].state = "FINISHED"
  /\ pc' = IF exc = NoExc THEN "upload_valid" ELSE "done"
  /\ UNCHANGED <<config, finished_order, write_lock, pos, fill_i, sink, pool,
                 cur, exc, uploaded, response>>

upload_valid ==
  /\ pc = "upload_valid"
  /\ uploaded' = uploaded \cup {"cleansed"}
  /\ pc' = "upload_error"
  /\ UNCHANGED <<config, finished_order, write_lock, pos, fill_i, sink, pool,
                 cur, exc, response>>

upload_valid_fails ==
  /\ pc = "upload_valid"
  /\ exc' = [kind |-> "UploadError", batch |-> -1]
  /\ pc' = "done"
  /\ UNCHANGED <<config, finished_order, write_lock, pos, fill_i, sink, pool,
                 cur, uploaded, response>>

\* the second upload, then the summary is returned
upload_error ==
  /\ pc = "upload_error"
  /\ uploaded' = uploaded \cup {"error"}
  /\ response' = [statusCode |-> 200, total_lines |-> line_count,
                  valid_lines |-> valid_count, error_lines |-> error_count,
                  workers |-> MAX_WORKERS, batch_size |-> BATCH_SIZE]
  /\ pc' = "done"
  /\ UNCHANGED <<config, finished_order, write_lock, pos, fill_i, sink, pool,
                 cur, exc>>

upload_error_fails ==
  /\ pc = "upload_error"
  /\ exc' = [kind |-> "UploadError", batch |-> -1]
  /\ pc' = "done"
  /\ UNCHANGED <<config, finished_order, write_lock, pos, fill_i, sink, pool,
                 cur, uploaded, response>>

Next ==
  \/ get_object
  \/ get_object_fails
  \/ read_header
  \/ initial_submit
  \/ take_completed
  \/ loop_exit
  \/ acquire_write_lock
  \/ ingest
  \/ refill
  \/ worker_start
  \/ worker_finish
  \/ worker_fault
  \/ executor_exit
  \/ upload_valid
  \/ upload_valid_fails
  \/ upload_error
  \/ upload_error_fails

Spec == Init /\ [][Next]_vars

\* The steps of the main thread and of the pool's threads.  The main thread
\* and every worker thread are scheduled when they can run, and a running
\* task ends.
MainStep ==
  \/ get_object
  \/ get_object_fails
  \/ read_header
  \/ initial_submit
  \/ take_completed
  \/ loop_exit
  \/ acquire_write_lock
  \/ ingest
  \/ refill
  \/ executor_exit
  \/ upload_valid
  \/ upload_valid_fails
  \/ upload_error
  \/ upload_error_fails

TaskEnd == worker_fault \/ worker_finish

SpecFair ==
  /\ Init
  /\ [][Next]_vars
  /\ WF_vars(MainStep)
  /\ WF_vars(worker_start)
  /\ WF_vars(TaskEnd)

\* The caller invokes lambda_handler again on the same object with the same
\* configuration; what the first run produced is kept for comparison.
rerun ==
  /\ pc = "done"
  /\ response.statusCode = 200
  /\ prev = NoRun
  /\ prev' = [ran |-> TRUE, valid_stream |-> SeqToBag(valid_stream),
              error_stream |-> SeqToBag(error_stream),
              total_lines |-> response.total_lines,
              valid_lines |-> response.valid_lines,
              error_lines |-> response.error_lines]
  /\ pos' = 0
  /\ pc' = "start"
  /\ fill_i' = 0
  /\ valid_stream' = << >>
  /\ error_stream' = << >>
  /\ line_count' = 0
  /\ valid_count' = 0
  /\ error_count' = 0
  /\ batch_count' = 0
  /\ futures' = {}
  /\ tasks' = << >>
  /\ cur' = NoResult
  /\ exc' = NoExc
  /\ uploaded' = {}
  /\ response' = NoResponse
  /\ UNCHANGED <<MAX_WORKERS, BATCH_SIZE, body, write_lock, finished_order,
                 v_line, v_result, v_batches, conn, total_count>>

\* Runs in which nothing fails, and their repetition.
NextRerun ==
  \/ get_object
  \/ read_header
  \/ initial_submit
  \/ take_completed
  \/ loop_exit
  \/ acquire_write_lock
  \/ ingest
  \/ refill
  \/ worker_start
  \/ worker_finish
  \/ executor_exit
  \/ upload_valid
  \/ upload_error
  \/ rerun

SpecRerun == Init /\ [][NextRerun]_vars

TypeOK ==
  /\ pc \in {"start", "header", "fill", "wait", "ingest", "locked",
             "refill", "shutdown", "upload_valid", "upload_error", "done"}
  /\ futures \subseteq 0..(batch_count - 1)
  /\ Len(tasks) = batch_count

\* ------------------------------------------------------------------------
\* validate_csv_row on its own, over a set of sample lines
\* ------------------------------------------------------------------------
Rep(c, n) == [i \in 1..n |-> c]

NoSamples ==
  {<< >>, <<" ">>, <<"7">>, <<"0", "0", "7">>, <<"x">>, <<"+", "7">>,
   <<"7", ".", "0">>, <<" ", "7", " ">>, <<"1", "_", "0">>}

NameSamples == {<< >>, <<"o", "k">>, Rep("a", 20), Rep("a", 21)}

DateSamples ==
  {DATE_OK, DATE_BAD, << >>,
   <<"2", "0", "2", "4", "-", "0", "2", "-", "2", "9">>,
   <<"2", "0", "2", "4", "/", "1", "3", "/", "0", "1">>,
   <<"2", "0", "2", "4", "/", "0", "4", "/", "3", "1">>,
   <<"2", "0", "2", "4", "/", "0", "4", "/", "3", "0">>,
   <<"2", "0", "2", "4", "/", "2", "/", "2", "9">>,
   <<"0", "0", "0", "0", "/", "0", "1", "/", "0", "1">>}

Join3(no, name, created_date) ==
  no \o <<",">> \o name \o <<",">> \o created_date

ThreeFieldLines ==
  {Join3(no, name, d) : no \in NoSamples, name \in NameSamples, d \in DateSamples}

\* Lines with another field count, quoted fields, and fields over the limit.
OtherLines ==
  {<<"7">>, <<"7", ",", "o", "k">>, <<",">>, <<" ">>,
   Join3(<<"7">>, <<"o", "k">>, DATE_OK) \o <<",">>,
   Join3(<< >>, Rep("a", 21), DATE_BAD) \o <<",", "x">>,
   Join3(<<"\"", "7", "\"">>, <<"\"", "o", ",", "k", "\"">>, DATE_OK),
   Join3(<<"7">>, <<"\"", "o", "\"", "\"", "k", "\"">>, DATE_OK),
   Join3(<<"7">>, <<"o", "k">>, <<"\"">> \o DATE_OK),
   Join3(<<"7">>, <<"\"", "o", "k">>, DATE_OK),
   Join3(<<"7">>, <<BIG>>, DATE_OK),
   Join3(<<BIG>>, <<"o", "k">>, DATE_OK),
   Join3(<< >>, Rep("a", 21), <<BIG>>),
   Join3(<<"7">>, <<"\"", BIG, "\"">>, DATE_BAD)}

\* More values of created_date that match the pattern: century years, the
\* ends of the month and day ranges.
MoreDates ==
  {<<"1", "9", "0", "0", "/", "0", "2", "/", "2", "9">>,
   <<"2", "0", "0", "0", "/", "0", "2", "/", "2", "9">>,
   <<"2", "0", "2", "4", "/", "0", "2", "/", "3", "0">>,
   <<"2", "0", "2", "3", "/", "0", "2", "/", "2", "8">>,
   <<"2", "0", "2", "4", "/", "0", "0", "/", "1", "0">>,
   <<"2", "0", "2", "4", "/", "0", "1", "/", "0", "0">>,
   <<"2", "0", "2", "4", "/", "0", "1", "/", "3", "2">>,
   <<"2", "0", "2", "4", "/", "0", "6", "/", "3", "1">>,
   <<"2", "0", "2", "4", "/", "1", "2", "/", "3", "1">>,
   <<"9", "9", "9", "9", "/", "1", "2", "/", "3", "1">>}

DateLines == {Join3(<<"7">>, <<"o", "k">>, d) : d \in MoreDates}

SampleLines == (ThreeFieldLines \cup OtherLines \cup DateLines) \ {<< >>}

InitValidator ==
  /\ MAX_WORKERS = 1
  /\ BATCH_SIZE = 1
  /\ body = << >>
  /\ pos = 0
  /\ pc = "validator"
  /\ fill_i = 0
  /\ valid_stream = << >>
  /\ error_stream = << >>
  /\ line_count = 0
  /\ valid_count = 0
  /\ error_count = 0
  /\ batch_count = 0
  /\ futures = {}
  /\ tasks = << >>
  /\ cur = NoResult
  /\ exc = NoExc
  /\ uploaded = {}
  /\ response = NoResponse
  /\ write_lock = "free"
  /\ finished_order = << >>
  /\ v_line \in SampleLines
  /\ v_result = NotCalled
  /\ v_batches = << >>
  /\ conn = NoTables
  /\ total_count = 0
  /\ prev = NoRun

\* result = validate_csv_row(line)
call_validate ==
  /\ pc = "validator"
  /\ v_result = NotCalled
  /\ v_result' = validate_csv_row(v_line)
  /\ UNCHANGED <<MAX_WORKERS, BATCH_SIZE, body, pos, pc, fill_i, sink, pool,
                 cur, exc, uploaded, response, write_lock, finished_order,
                 v_line, v_batches, conn, total_count, prev>>

SpecValidator == InitValidator /\ [][call_validate]_vars

\* ------------------------------------------------------------------------
\* batch_generator on its own, over the lines of an object
\* ------------------------------------------------------------------------
InitBatcher ==
  /\ MAX_WORKERS = 1
  /\ BATCH_SIZE \in 1..MaxBatch
  /\ body \in Bodies
  /\ pos = 0
  /\ pc = "batcher"
  /\ fill_i = 0
  /\ valid_stream = << >>
  /\ error_stream = << >>
  /\ line_count = 0
  /\ valid_count = 0
  /\ error_count = 0
  /\ batch_count = 0
  /\ futures = {}
  /\ tasks = << >>
  /\ cur = NoResult
  /\ exc = NoExc
  /\ uploaded = {}
  /\ response = NoResponse
  /\ write_lock = "free"
  /\ finished_order = << >>
  /\ v_line = << >>
  /\ v_result = NotCalled
  /\ v_batches = << >>
  /\ conn = NoTables
  /\ total_count = 0
  /\ prev = NoRun

\* batch = next(batches), until the generator ends or the iterator raises
next_batch ==
  /\ pc = "batcher"
  /\ LET nb == batch_generator(body, pos, BATCH_SIZE) IN
     /\ pos' = nb.pos
     /\ IF nb.raised
        THEN /\ pc' = "batcher_raised"
             /\ UNCHANGED v_batches
        ELSE IF nb.stop
        THEN /\ pc' = "batcher_stopped"
             /\ UNCHANGED v_batches
        ELSE /\ v_batches' = Append(v_batches, nb.batch)
             /\ UNCHANGED pc
  /\ UNCHANGED <<MAX_WORKERS, BATCH_SIZE, body, fill_i, sink, pool, cur, exc,
                 uploaded, response, write_lock, finished_order, v_line,
                 v_result, conn, total_count, prev>>

SpecBatcher == InitBatcher /\ [][next_batch]_vars

\* ------------------------------------------------------------------------
\* The DuckDB handlers (app_duckdb.py, app_duckdb_streaming.py)
\* ------------------------------------------------------------------------
\* SQL values: a VARCHAR is a sequence of characters, NULL is apart from
\* every VARCHAR; a condition is true, false or unknown ("T", "F", "N").
NULL == <<"NULL">>

And3(a, b) ==
  IF a = "F" \/ b = "F" THEN "F"
  ELSE IF a = "N" \/ b = "N" THEN "N"
  ELSE "T"

Not3(a) == IF a = "T" THEN "F" ELSE IF a = "F" THEN "T" ELSE "N"

\* read_csv_auto(..., header=true, all_varchar=true) on a line without
\* quotes: the fields are the text between the delimiters, every column
\* is VARCHAR and an empty field is read as NULL.
read_csv_field(f) == IF f = << >> THEN NULL ELSE f
read_csv_row(line) ==
  LET delims == {i \in 1..Len(line) : line[i] = ","}
      \* position of the k-th delimiter; 0 and Len(line) + 1 at the ends
      delim(k) ==
        IF k = 0 THEN 0
        ELSE IF k > Cardinality(delims) THEN Len(line) + 1
        ELSE CHOOSE i \in delims : Cardinality({j \in delims : j < i}) = k - 1
  IN  [k \in 1..(Cardinality(delims) + 1) |->
         read_csv_field(Slice(line, delim(k - 1) + 1, delim(k) - 1))]

\* x IS NOT NULL
is_not_null(x) == IF x = NULL THEN "F" ELSE "T"

\* TRIM(x) != ''
trim_not_empty(x) ==
  IF x = NULL THEN "N" ELSE IF Strip(x) # << >> THEN "T" ELSE "F"

RECURSIVE StripZeros(_)
StripZeros(ds) ==
  IF Len(ds) > 1 /\ Head(ds) = "0" THEN StripZeros(Tail(ds)) ELSE ds

\* a <= b for digit strings of the same length without leading zeros
RECURSIVE DigitsLeq(_, _)
DigitsLeq(a, b) ==
  IF a = << >> THEN TRUE
  ELSE IF DigitVal(Head(a)) < DigitVal(Head(b)) THEN TRUE
  ELSE IF DigitVal(Head(a)) > DigitVal(Head(b)) THEN FALSE
  ELSE DigitsLeq(Tail(a), Tail(b))

INT32_MAX == <<"2", "1", "4", "7", "4", "8", "3", "6", "4", "7">>
INT32_MIN == <<"2", "1", "4", "7", "4", "8", "3", "6", "4", "8">>

\* TRY_CAST(x AS INTEGER): the VARCHAR is a run of digits, after an optional
\* minus sign, whose value is in the range of the 32-bit INTEGER; text
\* without a digit gives NULL.  (The
\* value itself is not used: the result is x when the cast succeeds.)
try_cast_integer(x) ==
  IF x = NULL THEN NULL
  ELSE LET neg == x # << >> /\ Head(x) = "-"
           u   == IF neg THEN Tail(x) ELSE x
       IN  IF u = << >> \/ \E i \in 1..Len(u) : u[i] \notin Digit
           THEN NULL
           ELSE LET m   == StripZeros(u)
                    lim == IF neg THEN INT32_MIN ELSE INT32_MAX
                IN  IF Len(m) < 10 \/ (Len(m) = 10 /\ DigitsLeq(m, lim))
                    THEN x
                    ELSE NULL

\* LENGTH(x) <= 20
length_le_20(x) ==
  IF x = NULL THEN "N" ELSE IF Len(x) <= 20 THEN "T" ELSE "F"

\* REGEXP_MATCHES(x, '^[0-9]{4}/[0-9]{2}/[0-9]{2}$')
regexp_matches(x) ==
  IF x = NULL THEN "N" ELSE IF date_pattern(x) THEN "T" ELSE "F"

\* REPLACE(x, '/', '-')
replace_slash(x) ==
  IF x = NULL THEN NULL
  ELSE [i \in 1..Len(x) |-> IF x[i] = "/" THEN "-" ELSE x[i]]

\* TRY_CAST(x AS DATE) for a VARCHAR of the form YYYY-MM-DD: a date of the
\* calendar, otherwise NULL.  Other forms matter only for values that the
\* pattern has already refused.
try_cast_date(x) ==
  IF x = NULL THEN NULL
  ELSE IF /\ Len(x) = 10
          /\ \A i \in {1, 2, 3, 4, 6, 7, 9, 10} : x[i] \in Digit
          /\ x[5] = "-" /\ x[8] = "-"
          /\ LET y  == 1000 * DigitVal(x[1]) + 100 * DigitVal(x[2])
                       + 10 * DigitVal(x[3]) + DigitVal(x[4])
                 m  == 10 * DigitVal(x[6]) + DigitVal(x[7])
                 dd == 10 * DigitVal(x[9]) + DigitVal(x[10])
             IN  m \in 1..12 /\ dd >= 1 /\ dd <= DaysInMonth(y, m)
  THEN x
  ELSE NULL

\* The condition of the WHERE clause of valid_data, written P below, on a
\* row of raw_data.
where_valid(row) ==
  LET no           == row[1]
      name         == row[2]
      created_date == row[3]
  IN  And3(is_not_null(no),
      And3(trim_not_empty(no),
      And3(is_not_null(try_cast_integer(no)),
      And3(length_le_20(name),
      And3(regexp_matches(created_date),
           is_not_null(try_cast_date(replace_slash(created_date))))))))

\* A WHERE clause keeps the rows on which its condition is true.
select_valid(raw_data) ==
  SelectSeq(raw_data, LAMBDA row : where_valid(row) = "T")
select_error(raw_data) ==
  SelectSeq(raw_data, LAMBDA row : Not3(where_valid(row)) = "T")

\* The rows of the input of the DuckDB handler: three unquoted fields.
DuckNoSamples == {<< >>, <<" ">>, <<"7">>, <<"x">>}

\* Signed and zero-padded ids, and ids at the ends of the 32-bit range.
DuckLongNoSamples ==
  {<<"0", "0", "7">>, <<"-", "7">>, INT32_MAX, INT32_MIN,
   <<"-">> \o INT32_MIN, <<"-">> \o INT32_MAX \o <<"0">>}

DuckDateSamples ==
  {DATE_OK, DATE_BAD, << >>,
   <<"2", "0", "2", "4", "-", "0", "2", "-", "2", "9">>,
   <<"2", "0", "2", "4", "/", "1", "3", "/", "0", "1">>,
   <<"2", "0", "2", "4", "/", "0", "4", "/", "3", "1">>}

DuckLines ==
  {Join3(no, name, d) :
     no \in DuckNoSamples, name \in NameSamples, d \in DuckDateSamples}
    \cup {Join3(no, name, d) :
            no \in DuckLongNoSamples, name \in {<< >>, <<"o", "k">>},
            d \in DuckDateSamples}

\* First rows of the files of two rows.
DuckFirstLines ==
  {Join3(<<"7">>, <<"o", "k">>, DATE_OK), Join3(<<"7">>, << >>, DATE_OK),
   Join3(<<"x">>, <<"o", "k">>, DATE_OK)}

DuckBodies ==
  {<<HEADER, l>> : l \in DuckLines}
    \cup {<<HEADER, f, l>> : f \in DuckFirstLines, l \in DuckLines}

InitDuckDB ==
  /\ MAX_WORKERS = 1
  /\ BATCH_SIZE = 1
  /\ body \in DuckBodies
  /\ pos = 0
  /\ pc = "duckdb"
  /\ fill_i = 0
  /\ valid_stream = << >>
  /\ error_stream = << >>
  /\ line_count = 0
  /\ valid_count = 0
  /\ error_count = 0
  /\ batch_count = 0
  /\ futures = {}
  /\ tasks = << >>
  /\ cur = NoResult
  /\ exc = NoExc
  /\ uploaded = {}
  /\ response = NoResponse
  /\ write_lock = "free"
  /\ finished_order = << >>
  /\ v_line = << >>
  /\ v_result = NotCalled
  /\ v_batches = << >>
  /\ conn = NoTables
  /\ total_count = 0
  /\ prev = NoRun

\* CREATE TABLE raw_data AS SELECT * FROM read_csv_auto(...), then
\* total_count: with header=true the first line names the columns.
duckdb_load ==
  /\ pc = "duckdb"
  /\ LET raw_data == [k \in 1..(Len(body) - 1) |-> read_csv_row(body[k + 1])]
     IN  /\ conn' = [conn EXCEPT !.raw_data = raw_data]
         /\ total_count' = Len(raw_data)
  /\ pos' = Len(body)
  /\ pc' = "duckdb_loaded"
  /\ UNCHANGED <<MAX_WORKERS, BATCH_SIZE, body, fill_i, sink, pool, cur, exc,
                 uploaded, response, write_lock, finished_order, v_line,
                 v_result, v_batches, prev>>

\* CREATE TABLE valid_data, CREATE TABLE error_data, then the two counts
duckdb_split ==
  /\ pc = "duckdb_loaded"
  /\ LET valid_data == select_valid(conn.raw_data)
         error_data == select_error(conn.raw_data)
     IN  /\ conn' = [conn EXCEPT !.valid_data = valid_data,
                                 !.error_data = error_data]
         /\ valid_count' = Len(valid_data)
         /\ error_count' = Len(error_data)
  /\ pc' = "duckdb_split"
  /\ UNCHANGED <<MAX_WORKERS, BATCH_SIZE, body, pos, fill_i, valid_stream,
                 error_stream, line_count, total_count, pool, cur, exc,
                 uploaded, response, write_lock, finished_order, v_line,
                 v_result, v_batches, prev>>

\* COPY ... TO ... (HEADER, DELIMITER ','): a NULL is written as an empty
\* field.
copy_field(x) == IF x = NULL THEN << >> ELSE x
copy_to(table) ==
  <<HEADER>> \o [k \in 1..Len(table) |->
                   Join3(copy_field(table[k][1]), copy_field(table[k][2]),
                         copy_field(table[k][3]))]

\* The two exports, the two uploads and the returned summary.
duckdb_export ==
  /\ pc = "duckdb_split"
  /\ valid_stream' = copy_to(conn.valid_data)
  /\ error_stream' = copy_to(conn.error_data)
  /\ uploaded' = {"cleansed", "error"}
  /\ response' = [statusCode |-> 200, total_lines |-> total_count,
                  valid_lines |-> valid_count, error_lines |-> error_count]
  /\ pc' = "duckdb_done"
  /\ UNCHANGED <<MAX_WORKERS, BATCH_SIZE, body, pos, fill_i, line_count,
                 valid_count, error_count, total_count, conn, pool, cur, exc,
                 write_lock, finished_order, v_line, v_result, v_batches,
                 prev>>

NextDuckDB == duckdb_load \/ duckdb_split \/ duckdb_export

SpecDuckDB == InitDuckDB /\ [][NextDuckDB]_vars

\* ------------------------------------------------------------------------
\* Vocabulary of the properties
\* ------------------------------------------------------------------------
NonEmpty(l) == l # << >>

\* The data lines of the input: the non-empty raw lines after the first.
DataLines == IF body = << >> THEN << >> ELSE SelectSeq(Tail(body), NonEmpty)

\* The first raw line is forwarded as the header when it is not empty.
HasHeader == body # << >> /\ body[1] # << >>

\* What a stream holds after its header line.
DataPart(stream) == IF HasHeader /\ stream # << >> THEN Tail(stream) ELSE stream

\* The scheduler loop has run to its end without an exception.
LoopCompleted ==
  \/ pc \in {"upload_valid", "upload_error"}
  \/ pc = "done" /\ exc.kind \in {"none", "UploadError"}

Succeeded == pc = "done" /\ response.statusCode = 200

\* Batches submitted and not yet popped and ingested.
InFlight == Cardinality(futures) + (IF pc \in {"ingest", "locked"} THEN 1 ELSE 0)

StreamExhausted == batch_generator(body, pos, BATCH_SIZE).stop

\* ------------------------------------------------------------------------
\* Properties
\* ------------------------------------------------------------------------

\* C1: when the multithreaded run completes, valid_count + error_count is
\* the number N of data lines, and every data line has been written exactly
\* once, to exactly one of valid_stream and error_stream.
C1_EveryLineOnce ==
  LoopCompleted =>
    /\ valid_count + error_count = Len(DataLines)
    /\ SeqToBag(DataPart(valid_stream)) (+) SeqToBag(DataPart(error_stream))
         = SeqToBag(DataLines)
    /\ Range(DataPart(valid_stream)) \cap Range(DataPart(error_stream)) = {}

C1_Witness ==
  /\ Succeeded
  /\ valid_count >= 1
  /\ error_count >= 1
  /\ Len(DataLines) = 3
  /\ batch_count = 3
  /\ MAX_WORKERS = 2

\* C2: a header line is written verbatim exactly once to each stream and is
\* counted in none of the three counters: after a complete run
\* total == accepted + rejected == number of data records.
C2_HeaderNotCounted ==
  (LoopCompleted /\ HasHeader) =>
    /\ Cardinality({i \in 1..Len(valid_stream) : valid_stream[i] = body[1]}) = 1
    /\ Cardinality({i \in 1..Len(error_stream) : error_stream[i] = body[1]}) = 1
    /\ line_count = valid_count + error_count
    /\ valid_count + error_count = Len(DataLines)

\* C3: the number of batches in flight never exceeds 2 x MAX_WORKERS.
C3_WindowBound == InFlight <= 2 * MAX_WORKERS

\* The window is full again after a result was ingested and a new batch
\* admitted.
C3_Witness ==
  /\ pc = "wait"
  /\ Cardinality(futures) = 2 * MAX_WORKERS
  /\ batch_count > 2 * MAX_WORKERS

C5_CancelOnFault ==
  [][exc.kind = "TaskFault" =>
       /\ Len(tasks') = Len(tasks)
       /\ \A i \in 1..Len(tasks) :
            tasks[i].state = "PENDING" => tasks'[i].state = "PENDING"]_vars

\* C6: a run ends either with a summary and both outputs stored, or with an
\* exception and neither output stored.
C6_AllOrNothing ==
  pc = "done" =>
    \/ /\ response.statusCode = 200
       /\ exc = NoExc
       /\ uploaded = {"cleansed", "error"}
    \/ /\ response = NoResponse
       /\ exc # NoExc
       /\ uploaded = {}

\* s lists some of the elements of t, in the order they have in t.
InOrderOf(s, t) ==
  \A i, j \in 1..Len(s) :
    i < j => \E a, b \in 1..Len(t) : a < b /\ t[a] = s[i] /\ t[b] = s[j]

\* C7: the accepted output lists the accepted records in input order, and
\* the rejected output the rejected records in input order.
C7_InputOrder ==
  /\ InOrderOf(DataPart(valid_stream), DataLines)
  /\ InOrderOf(DataPart(error_stream), DataLines)

\* C8: a second complete run on the same input with the same configuration
\* gives the same multiset of accepted lines, the same multiset of rejected
\* lines and the same three counters as the first, whatever the schedules.
C8_SameOutputs ==
  (prev # NoRun /\ Succeeded) =>
    /\ SeqToBag(valid_stream) = prev.valid_stream
    /\ SeqToBag(error_stream) = prev.error_stream
    /\ response.total_lines = prev.total_lines
    /\ response.valid_lines = prev.valid_lines
    /\ response.error_lines = prev.error_lines

C8_Witness ==
  /\ prev # NoRun
  /\ Succeeded
  /\ MAX_WORKERS = 2
  /\ valid_count >= 2
  /\ error_count >= 1
  /\ ~InOrderOf(DataPart(valid_stream), DataLines)

\* The reason of the taxonomy that a returned dictionary stands for.
Reason(v) ==
  IF v.valid THEN "none"
  ELSE CASE v.error = "Invalid column count" -> "malformed-row"
         [] v.error = "field larger than field limit (131072)" -> "malformed-row"
         [] v.error \in {"no is null", "no is not int"} -> "id-null-or-nonint"
         [] v.error = "name exceeds 20 characters" -> "label-too-long"
         [] v.error = "created_date is not YYYY/MM/DD format" -> "date-format"
         [] v.error = "created_date is invalid date" -> "date-invalid"
         [] OTHER -> "unclassified"

\* The reasons a rejection can carry.
Taxonomy == {"malformed-row", "id-null-or-nonint", "label-too-long",
             "date-format", "date-invalid"}

\* The five rules, each on its own, on a row of three fields.
ViolatesId(row) == Strip(row[1]) = << >> \/ ~int_ok(row[1])
ViolatesLabel(row) == Len(row[2]) > 20
ViolatesPattern(row) == ~date_pattern(row[3])
ViolatesDate(row) == ~date_pattern(row[3]) \/ ~strptime_ok(row[3])

FirstViolated(row) ==
  IF Len(row) # 3 THEN "malformed-row"
  ELSE IF ViolatesId(row) THEN "id-null-or-nonint"
  ELSE IF ViolatesLabel(row) THEN "label-too-long"
  ELSE IF ViolatesPattern(row) THEN "date-format"
  ELSE IF ViolatesDate(row) THEN "date-invalid"
  ELSE "none"

\* C9: the reported reason is that of the first rule, in the order field
\* count, id, label length, date pattern, date validity, that the record
\* violates; a record violating the label and the pattern rule is
\* label-too-long, a record with an empty id is id-null-or-nonint.
C9_FirstRuleWins ==
  (v_result # NotCalled /\ csv_reader(v_line).ok) =>
    LET row == csv_reader(v_line).row IN
    /\ Reason(v_result) = FirstViolated(row)
    /\ v_result.valid <=> FirstViolated(row) = "none"
    /\ (Len(row) = 3 /\ ~ViolatesId(row) /\ ViolatesLabel(row)
          /\ ViolatesPattern(row)) => Reason(v_result) = "label-too-long"
    /\ (Len(row) = 3 /\ row[1] = << >>) => Reason(v_result) = "id-null-or-nonint"

C9_Witness ==
  /\ v_result # NotCalled
  /\ csv_reader(v_line).ok
  /\ LET row == csv_reader(v_line).row IN
     /\ Len(row) = 3
     /\ ~ViolatesId(row)
     /\ ViolatesLabel(row)
     /\ ViolatesPattern(row)
  /\ Reason(v_result) = "label-too-long"

C11_ReasonIffRejected ==
  v_result # NotCalled =>
    /\ ("error" \in DOMAIN v_result) <=> ~v_result.valid
    /\ ~v_result.valid =>
         /\ DOMAIN v_result = {"valid", "error", "line"}
         /\ Reason(v_result) \in Taxonomy
    /\ v_result.valid =>
         /\ DOMAIN v_result = {"valid", "line"}
         /\ Reason(v_result) = "none"

\* A rejection that comes from the except clause, with its reason.
C11_Witness ==
  /\ v_result # NotCalled
  /\ ~csv_reader(v_line).ok
  /\ "error" \in DOMAIN v_result
  /\ v_result.error = csv_reader(v_line).msg
  /\ Reason(v_result) \in Taxonomy

\* Records of the batches submitted and not yet ingested.
RECURSIVE RecordsOf(_)
RecordsOf(ids) ==
  IF ids = {} THEN 0
  ELSE LET b == CHOOSE x \in ids : TRUE
       IN  Len(tasks[b + 1].lines) + RecordsOf(ids \ {b})

\* Input records the handler holds: those of the in-flight batches, and
\* those written to valid_stream and error_stream, which are BytesIO
\* buffers kept whole until the uploads.
HeldRecords ==
  RecordsOf(futures)
    + (IF pc \in {"ingest", "locked"}
       THEN Len(cur.valid_lines) + Len(cur.error_lines) ELSE 0)
    + Len(DataPart(valid_stream)) + Len(DataPart(error_stream))

\* C12: in every state the number of input records held in memory, in the
\* in-flight batches and in the two accumulators, is at most the capacity
\* of the window, 2 * MAX_WORKERS batches of BATCH_SIZE records, whatever
\* the number of input records.
C12_MemoryBounded == HeldRecords <= 2 * MAX_WORKERS * BATCH_SIZE

\* Index of the first raw line that is not empty, 0 when there is none.
FirstNonEmpty ==
  IF \A i \in 1..Len(body) : body[i] = << >> THEN 0
  ELSE CHOOSE i \in 1..Len(body) :
         body[i] # << >> /\ \A j \in 1..(i - 1) : body[j] = << >>

\* C13: on every input, leading empty lines included, the first non-empty
\* line is the header: it is forwarded to both streams and given to no
\* validation task; every later non-empty line is validated and counted as
\* a data record; empty lines are neither validated nor written; and the
\* multithreaded handler produces what the sequential handler produces.
C13_FirstNonEmptyIsHeader ==
  LoopCompleted =>
    LET h  == FirstNonEmpty
        sq == app_handler(body)
    IN  /\ h # 0 =>
             /\ valid_stream # << >> /\ valid_stream[1] = body[h]
             /\ error_stream # << >> /\ error_stream[1] = body[h]
             /\ \A i \in 1..Len(tasks) : body[h] \notin Range(tasks[i].lines)
             /\ valid_count + error_count
                  = Cardinality({i \in (h + 1)..Len(body) : body[i] # << >>})
        /\ \A i \in 1..Len(tasks) : << >> \notin Range(tasks[i].lines)
        /\ << >> \notin Range(valid_stream) \cup Range(error_stream)
        /\ SeqToBag(valid_stream) = SeqToBag(sq.valid_stream)
        /\ SeqToBag(error_stream) = SeqToBag(sq.error_stream)
        /\ valid_count = sq.valid_count
        /\ error_count = sq.error_count
        /\ line_count = sq.line_count

\* The process_batch invocations that are executing.
Running == {i \in 1..Len(tasks) : tasks[i].state = "RUNNING"}
Queued == {i \in 1..Len(tasks) : tasks[i].state = "PENDING"}

\* C14: in every state at most MAX_WORKERS process_batch invocations are
\* executing; a submitted batch beyond that stays queued until a worker is
\* free, so a batch starts only in a state with fewer than MAX_WORKERS
\* executing.
C14_AtMostMaxWorkers ==
  /\ Cardinality(Running) <= MAX_WORKERS
  /\ Queued # {} /\ Cardinality(Running) < MAX_WORKERS
       => ENABLED worker_start

\* Both workers busy and a submitted batch waiting in the queue.
C14_Witness ==
  /\ MAX_WORKERS = 2
  /\ Cardinality(Running) = MAX_WORKERS
  /\ Queued # {}

\* The raw lines of the object that are not UTF-8.
Undecodable == {i \in 1..Len(body) : BADBYTE \in Range(body[i])}

\* C15: when a line of the object, the header or a data line, cannot be
\* decoded, the run ends with an exception raised to the caller: the line
\* is given to no validation task, is written to neither stream and is not
\* counted as rejected, and no summary is returned.
C15_DecodeFaultFatal ==
  Undecodable # {} =>
    /\ \A i \in Undecodable :
         /\ body[i] \notin Range(valid_stream) \cup Range(error_stream)
         /\ \A t \in 1..Len(tasks) : body[i] \notin Range(tasks[t].lines)
    /\ error_count = Len(DataPart(error_stream))
    /\ response = NoResponse
    /\ pc = "done" => exc # NoExc

\* The decode failed on a data line met while refilling the window, after
\* earlier records were ingested.
C15_Witness ==
  /\ Undecodable # {}
  /\ pc = "done"
  /\ exc.kind = "UnicodeDecodeError"
  /\ valid_count + error_count >= 1

\* A step of a worker thread: a work item changes state.
WorkerStep == Len(tasks') = Len(tasks) /\ tasks' # tasks

\* C16 as stated: every step that changes valid_stream, error_stream or a
\* counter is a step of the main thread inside the write_lock block, with
\* the lock held, and no step of a worker changes them.
C16_OnlyUnderLock ==
  [][/\ sink' # sink => (pc = "locked" /\ write_lock = "main")
     /\ WorkerStep => sink' = sink]_vars

\* C16, amended: from the creation of the pool on, every step that changes
\* valid_stream, error_stream or a counter is a step of the main thread
\* inside the write_lock block, with the lock held, and no step of a worker
\* changes them; the header is written and counted by the main thread
\* before the pool exists, without the lock.
C16_OnlyUnderLockAfterHeader ==
  [][/\ (sink' # sink /\ pc # "header")
          => (pc = "locked" /\ write_lock = "main")
     /\ (sink' # sink /\ pc = "header") => (tasks = << >> /\ ~WorkerStep)
     /\ WorkerStep => sink' = sink]_vars

\* The main thread is inside the block, about to append, while a worker is
\* executing and earlier records are already in the streams.
C16_Witness ==
  /\ pc = "locked"
  /\ write_lock = "main"
  /\ Running # {}
  /\ valid_count + error_count >= 1
  /\ Len(cur.valid_lines) + Len(cur.error_lines) >= 1

\* Days of the months of a common year.
MonthLengths == <<31, 28, 31, 30, 31, 30, 31, 31, 30, 31, 30, 31>>

\* y/m/dd is a date of the calendar (years 0001 to 9999): February has a
\* 29th in the years divisible by 4, centuries excepted unless divisible
\* by 400.
RealDate(y, m, dd) ==
  /\ y >= 1
  /\ m \in 1..12
  /\ dd >= 1
  /\ dd <= MonthLengths[m]
             + (IF m = 2 /\ ((y % 4 = 0 /\ y % 100 # 0) \/ y % 400 = 0)
                THEN 1 ELSE 0)

Num(ds) == IF Len(ds) = 4
           THEN 1000 * DigitVal(ds[1]) + 100 * DigitVal(ds[2])
                + 10 * DigitVal(ds[3]) + DigitVal(ds[4])
           ELSE 10 * DigitVal(ds[1]) + DigitVal(ds[2])

\* C17: for a created_date that matches YYYY/MM/DD, in a record the
\* earlier rules accept, validate_csv_row accepts exactly when the value is
\* a date of the calendar, and otherwise rejects as date-invalid:
\* 2024/02/29 is accepted; 2023/02/29, month 13 and April 31 are rejected.
C17_RealCalendarDate ==
  (v_result # NotCalled /\ csv_reader(v_line).ok) =>
    LET row == csv_reader(v_line).row IN
    (Len(row) = 3 /\ ~ViolatesId(row) /\ ~ViolatesLabel(row)
       /\ date_pattern(row[3])) =>
      LET d == row[3]
          real == RealDate(Num(Slice(d, 1, 4)), Num(Slice(d, 6, 7)),
                           Num(Slice(d, 9, 10)))
      IN  /\ v_result.valid <=> real
          /\ ~real => Reason(v_result) = "date-invalid"
          /\ d = DATE_OK => v_result.valid
          /\ d = DATE_BAD => ~v_result.valid

\* February 29 of a century year that is not a leap year is rejected.
C17_Witness ==
  /\ v_result # NotCalled
  /\ csv_reader(v_line).ok
  /\ LET row == csv_reader(v_line).row IN
     /\ Len(row) = 3
     /\ row[3] = <<"1", "9", "0", "0", "/", "0", "2", "/", "2", "9">>
  /\ ~v_result.valid
  /\ Reason(v_result) = "date-invalid"

\* C18: a record with three fields, a valid id and a valid date is accepted
\* when its name has at most 20 characters, none and exactly 20 included,
\* and is rejected as label-too-long when its name has 21 or more.
C18_LabelLimit ==
  (v_result # NotCalled /\ csv_reader(v_line).ok) =>
    LET row == csv_reader(v_line).row IN
    (Len(row) = 3 /\ ~ViolatesId(row) /\ ~ViolatesDate(row)) =>
      /\ Len(row[2]) <= 20 => v_result.valid
      /\ Len(row[2]) >= 21 =>
           (~v_result.valid /\ Reason(v_result) = "label-too-long")

\* A name of exactly 20 characters is accepted.
C18_Witness ==
  /\ v_result # NotCalled
  /\ csv_reader(v_line).ok
  /\ LET row == csv_reader(v_line).row IN
     /\ Len(row) = 3
     /\ Len(row[2]) = 20
  /\ v_result.valid

\* The summary app.py returns on the same object: its three counters.
app_summary ==
  LET sq == app_handler(body) IN
  [total_lines |-> sq.line_count, valid_lines |-> sq.valid_count,
   error_lines |-> sq.error_count]

\* C19: on a successful run the summary's counts are the actual results:
\* valid_lines is the number of data records written to the accepted
\* output, error_lines the number written to the rejected output, and
\* total_lines the number of data records of the input; for the
\* multithreaded handler and for the sequential one.
C19_SummaryCounts ==
  Succeeded =>
    /\ response.valid_lines = Len(DataPart(valid_stream))
    /\ response.error_lines = Len(DataPart(error_stream))
    /\ response.total_lines = Len(DataLines)
    /\ app_summary.total_lines = Len(DataLines)

Min(a, b) == IF a <= b THEN a ELSE b

\* Batches the object yields, and those whose records are in the streams.
TotalBatches == (Len(DataLines) + BATCH_SIZE - 1) \div BATCH_SIZE
IngestedBatches ==
  Cardinality({i \in 1..Len(tasks) :
                 Range(tasks[i].lines)
                   \subseteq Range(valid_stream) \cup Range(error_stream)})

\* C20: whenever the main thread waits for a completed future, the number
\* of futures is the smaller of 2 * MAX_WORKERS and the number of batches
\* not yet ingested; an ingestion is followed by the refill step, which,
\* before the next wait, submits exactly one batch while the batch stream
\* is not exhausted; once it is exhausted no batch is submitted.
C20_RefillKeepsWindow ==
  /\ [](pc = "wait" =>
          Cardinality(futures)
            = Min(2 * MAX_WORKERS, TotalBatches - IngestedBatches))
  /\ [][/\ (pc = "locked" /\ pc' # pc) => pc' = "refill"
        /\ (pc = "refill" /\ pc' = "refill") => batch_count' = batch_count
        /\ (pc = "refill" /\ pc' = "wait") =>
             batch_count' = batch_count + (IF StreamExhausted THEN 0 ELSE 1)
        /\ StreamExhausted => batch_count' = batch_count]_vars

\* The stream is exhausted and the window drains: fewer futures than the
\* window allows are left, after more batches than the window were made.
C20_Witness ==
  /\ pc = "wait"
  /\ StreamExhausted
  /\ batch_count > 2 * MAX_WORKERS
  /\ futures # {}
  /\ Cardinality(futures) < 2 * MAX_WORKERS
  /\ Cardinality(futures) = TotalBatches - IngestedBatches

\* C21: results are ingested in the order their tasks finish: the future
\* popped for ingestion belongs to a task that has ended, and it is the
\* one that ended first among the futures still in the dictionary, so the
\* lines of a task that ended earlier are appended earlier.
C21_CompletionOrder ==
  [][\A b \in futures \ futures' :
       /\ tasks[b + 1].state = "FINISHED"
       /\ finished_order # << >>
       /\ b = Head(finished_order)]_vars

\* C21, amended: the future popped for ingestion belongs to a task that has
\* ended and is one of the ended futures still in the dictionary, whichever
\* as_completed yields first; it need not be the one that ended first, and
\* the batch ids play no part.
C21_AnyCompletedNext ==
  [][\A b \in futures \ futures' :
       /\ pc = "wait"
       /\ tasks[b + 1].state = "FINISHED"
       /\ b \in Range(finished_order)]_vars

\* With one worker the task of batch 0 ends before that of batch 1 starts;
\* here batch 1 has been ingested while batch 0 is still in the dictionary.
C21_Witness ==
  /\ MAX_WORKERS = 1
  /\ pc = "refill"
  /\ Len(tasks) >= 2
  /\ 0 \in futures
  /\ 1 \notin futures
  /\ finished_order # << >> /\ Head(finished_order) = 0
  /\ Range(tasks[2].lines)
       \subseteq Range(valid_stream) \cup Range(error_stream)

\* The records the iterator gives to batch_generator: the non-empty lines.
Records == SelectSeq(body, NonEmpty)

RECURSIVE Flatten(_)
Flatten(bs) == IF bs = << >> THEN << >> ELSE Head(bs) \o Flatten(Tail(bs))

\* C22: for every record sequence and batch_size >= 1 the batches yielded
\* so far, concatenated, are the records read so far; every batch has
\* between 1 and batch_size records and every batch but the last exactly
\* batch_size; when the records are exhausted the generator stops without
\* an exception, having yielded them all, and nothing for no records.
C22_BatchesPartitionInput ==
  pc \in {"batcher", "batcher_stopped", "batcher_raised"} =>
    /\ Flatten(v_batches) = SubSeq(Records, 1, Len(Flatten(v_batches)))
    /\ \A i \in 1..Len(v_batches) :
         /\ Len(v_batches[i]) \in 1..BATCH_SIZE
         /\ i < Len(v_batches) => Len(v_batches[i]) = BATCH_SIZE
         /\ Len(v_batches[i]) < BATCH_SIZE
              => Len(Flatten(v_batches)) = Len(Records)
    /\ pc = "batcher_stopped" => Flatten(v_batches) = Records
    /\ pc = "batcher_raised" => Undecodable # {}
    /\ (Records = << >> /\ pc # "batcher") =>
         (pc = "batcher_stopped" /\ v_batches = << >>)

\* Three records with batch_size 2: a full batch, then a short last one,
\* then the generator has stopped.
C22_Witness ==
  /\ pc = "batcher_stopped"
  /\ BATCH_SIZE = 2
  /\ Len(v_batches) = 2
  /\ Len(v_batches[1]) = 2
  /\ Len(v_batches[2]) = 1
  /\ Flatten(v_batches) = Records

\* The lines given to tasks, in submission order, and how often the lines
\* of work item i have been appended to the streams.
TaskLines == Flatten([i \in 1..Len(tasks) |-> tasks[i].lines])
Occ(x, st) == Cardinality({k \in 1..Len(st) : st[k] = x})
IngestedTimes(i, n) ==
  \A l \in Range(tasks[i].lines) :
    Occ(l, DataPart(valid_stream) \o DataPart(error_stream)) = n

\* What C23 says of every state of every run, but for how often a batch
\* is ingested: each batch read from the stream is the argument of exactly
\* one task; no batch is ingested twice; an upload is about to happen only
\* when the stream is exhausted, no future is left in the dictionary and
\* every submitted batch has been ingested once; and each output is
\* uploaded at most once.
LifecycleSafety ==
  /\ TaskLines = SubSeq(DataLines, 1, Len(TaskLines))
  /\ \A i \in 1..Len(tasks) : IngestedTimes(i, 0) \/ IngestedTimes(i, 1)
  /\ (pc \in {"upload_valid", "upload_error"} \/ uploaded # {}) =>
       /\ StreamExhausted
       /\ futures = {}
       /\ TaskLines = DataLines
       /\ \A i \in 1..Len(tasks) : IngestedTimes(i, 1)
  /\ pc = "upload_valid" => uploaded = {}
  /\ pc = "upload_error" => uploaded = {"cleansed"}

\* C23 as stated: in every run, when it has ended, each submitted batch
\* has been ingested exactly once; with the rest of the lifecycle.
C23_ExactlyOnce ==
  /\ LifecycleSafety
  /\ pc = "done" => \A i \in 1..Len(tasks) : IngestedTimes(i, 1)

\* C23, amended: in every run that leaves the scheduler loop without an
\* exception each submitted batch has been ingested exactly once; in a run
\* that an exception ends, batches already submitted are ingested at most
\* once; with the rest of the lifecycle.
C23_ExactlyOnceIfCompleted ==
  /\ LifecycleSafety
  /\ LoopCompleted => \A i \in 1..Len(tasks) : IngestedTimes(i, 1)

\* Both outputs uploaded after three batches, each ingested once.
C23_Witness ==
  /\ uploaded = {"cleansed", "error"}
  /\ Len(tasks) = 3
  /\ futures = {}
  /\ \A i \in 1..Len(tasks) : IngestedTimes(i, 1)

\* The scheduler loop has been left, normally or by an exception raised in
\* the with block.
LoopOver == pc \in {"shutdown", "upload_valid", "upload_error"}
              \/ (pc = "done" /\ exc.kind # "ClientError")
Drained == futures = {} /\ StreamExhausted

\* C24 as stated, in the part a finite run refutes: on every input, when
\* every task ends normally, the loop is left with no future in the
\* dictionary and the stream exhausted.
C24_EndsDrained == (LoopOver /\ exc.kind # "TaskFault") => Drained

\* C24, amended: with fair scheduling and tasks that end, on every input
\* the scheduler loop is eventually left and the run ends, so no state
\* before the end blocks the main thread and the workers for ever; when
\* the main thread is at the loop test with an empty dictionary every
\* work item has ended and it leaves the loop instead of waiting; and the
\* loop is left with no future in the dictionary and the stream exhausted
\* unless an exception ended it.
C24_Terminates ==
  /\ []((pc = "wait" /\ futures = {}) =>
          \A i \in 1..Len(tasks) : tasks[i].state = "FINISHED")
  /\ []((LoopOver /\ exc.kind \notin {"TaskFault", "UnicodeDecodeError"})
          => Drained)
  /\ <>(LoopOver \/ exc.kind = "ClientError")
  /\ <>(pc = "done")

\* The loop was left normally after three batches, all ingested.
C24_Witness ==
  /\ pc = "shutdown"
  /\ exc = NoExc
  /\ Drained
  /\ batch_count = 3
  /\ \A i \in 1..Len(tasks) : tasks[i].state = "FINISHED"

\* ------------------------------------------------------------------------
\* C25, C26: the DuckDB handler
\* ------------------------------------------------------------------------
DuckSplitDone == pc \in {"duckdb_split", "duckdb_done"}

\* C25: the accepted selection (WHERE P) and the rejected selection
\* (WHERE NOT (P)) partition the loaded rows: every row of raw_data,
\* rows with a NULL no, name or created_date included, is in exactly one
\* of valid_data and error_data, so valid_count + error_count equals
\* total_count.
C25_SelectionsPartition ==
  DuckSplitDone =>
    /\ \A r \in Range(conn.raw_data) :
         Occ(r, conn.valid_data) + Occ(r, conn.error_data)
           = Occ(r, conn.raw_data)
    /\ valid_count + error_count = total_count

\* C26: the predicate of app_duckdb.py accepts a three-field record if and
\* only if validate_csv_row accepts it: a row is in valid_data exactly when
\* validate_csv_row returns valid for the line it was read from.
C26_SamePredicate ==
  DuckSplitDone =>
    \A k \in 1..Len(conn.raw_data) :
      (conn.raw_data[k] \in Range(conn.valid_data))
        <=> validate_csv_row(body[k + 1]).valid

====
